---- MODULE Spec2Model ----
(***************************************************************************)
(* Model of niadc_gui.py: the acquisition thread (Measurement.run), the    *)
(* export thread (DataAcquisition.run / _data_acquisition) and the caller  *)
(* of stop (Gui._stop -> DataAcquisition.exit), sharing Measurement.lock,  *)
(* Measurement.data_queue, the two exit_ flags and the nidaqmx task.       *)
(* One action is one step between two points at which the interpreter may  *)
(* switch threads; purely thread-local statements are merged into the step *)
(* that precedes them.                                                     *)
(***************************************************************************)
EXTENDS Integers, Sequences, FiniteSets, TLC

\* ------------------------------------------------------------- bounds
\* Number of blocks the source delivers before the model stops reading.
MaxReads == 2
\* len(cfg['channel']): the configured channels are 0 .. NumCh-1.
NumCh == 1
\* cfg['read_samples']: samples per channel in one block.
ReadSamples == 1
\* cfg['data_length']: maxlen of every deque.
dataLength == 2
\* Clock ticks per sample, i.e. 1e9 / sampling_rate in the model's time unit.
SamplePeriod == 2

\* Longest input of one push, and the range of its first sample number and
\* start time, in the specification of the push alone.
MaxPushLen == 2

\* Largest number of samples of a timestamp vector computed on its own.
StampMaxN == 5

\* ------------------------------------------------------------ helpers
Min(a, b) == IF a <= b THEN a ELSE b

Max(a, b) == IF a >= b THEN a ELSE b

\* self.channel: the configured channel indices, in configured order.
channel == [i \in 1..NumCh |-> i - 1]

\* Number of queues of the RingBuffer: one per channel plus the timestamps.
NQ == Len(channel) + 1

\* self.read_timeout = read_samples / sampling_rate, times 1e+9, in ticks.
read_timeout == ReadSamples * SamplePeriod

\* The voltage the device delivers as sample number s of physical channel
\* ch; distinct for distinct (ch, s), so a cell identifies its sample.
Voltage(ch, s) == 100 * (ch + 1) + s

\* The sample number carried by a voltage cell.
SampleOf(v) == v % 100

\* _channel_bool: for every physical channel min..max, whether it is used.
channel_bool == [p \in 1..(channel[Len(channel)] - channel[1] + 1) |->
                   \E i \in 1..Len(channel) : channel[i] = channel[1] + p - 1]

\* task.read of block b (b = 1, 2, ...) followed by the normalisation of
\* lines 261-262: one sequence of read_samples voltages per used channel.
\* A single-channel task returns a flat list, which line 261 wraps.
TaskRead(b) ==
    LET samples(ch) == [j \in 1..ReadSamples |->
                           Voltage(ch, (b - 1) * ReadSamples + j)]
        raw == IF Len(channel) = 1
                 THEN samples(channel[1])
                 ELSE [p \in 1..Len(channel_bool) |-> samples(channel[1] + p - 1)]
        wrapped == IF Len(channel) = 1 THEN <<raw>> ELSE raw
        used == {p \in 1..Len(wrapped) : channel_bool[p]}
        nth(k) == CHOOSE p \in used : Cardinality({r \in used : r < p}) = k - 1
    IN  [k \in 1..Cardinality(used) |-> wrapped[nth(k)]]

\* Mutant of ZipConcat: the block read replaces what data held, so a block
\* read while the lock was set is dropped.
ZipReplace(acc, blk) == [i \in 1..Min(Len(acc), Len(blk)) |-> blk[i]]

\* Mutant of ZipConcat: the block read is put in front of what data held.
ZipPrepend(acc, blk) == [i \in 1..Min(Len(acc), Len(blk)) |-> blk[i] \o acc[i]]

\* data = [lst + _lst for lst, _lst in zip(data, _data)]
ZipConcat(acc, blk) == [i \in 1..Min(Len(acc), Len(blk)) |-> acc[i] \o blk[i]]

\* [list()] * (len(self.channel)+1)
EmptyData == [i \in 1..NQ |-> <<>>]

\* Mutant of Linspace: np.linspace(..., endpoint=False) spaces the num
\* points by (stop - start) / num.
LinspaceNoEndpoint(start, stop, num) ==
    [i \in 1..num |-> start + ((i - 1) * (stop - start)) \div num]

\* np.linspace(start, stop, num): num evenly spaced points, both ends
\* included (exact when the spacing divides, rounded down otherwise).
Linspace(start, stop, num) ==
    [i \in 1..num |-> start + ((i - 1) * (stop - start)) \div (num - 1)]

\* np.linspace(starttime, starttime + duration, 1+n)[:-1]
TimestampVector(st, duration, n) ==
    SubSeq(Linspace(st, st + duration, 1 + n), 1, n)

\* np.linspace(starttime, starttime + read_timeout*1e+9, 1+n)[:-1]
Timestamps(st, n) == TimestampVector(st, read_timeout, n)

\* Mutant of ExtendQ: a full deque refuses the newest entries instead of
\* dropping the oldest.
ExtendQKeepOldest(q, xs) ==
    LET all == q \o xs
    IN  IF Len(all) <= dataLength THEN all ELSE SubSeq(all, 1, dataLength)

\* collections.deque(maxlen=dataLength).extend(xs): append on the right,
\* dropping from the left whatever exceeds maxlen.
ExtendQ(q, xs) ==
    LET all == q \o xs
    IN  IF Len(all) <= dataLength THEN all
        ELSE SubSeq(all, Len(all) - dataLength + 1, Len(all))

\* How many entries ExtendQ(q, xs) drops.
Evicted(q, xs) == Max(0, Len(q) + Len(xs) - dataLength)

\* Measurement.q_init: a new list of empty bounded deques.
q_init == [i \in 1..NQ |-> <<>>]

\* self.columns
columns == <<"timestamp">> \o [i \in 1..Len(channel) |-> channel[i]]

\* np.array(data).T.reshape((-1, len(channel)+1)) for queues of one common
\* length k: the (NQ, k) array transposed is (k, NQ), row i holding entry i
\* of every queue; reshape((-1, NQ)) leaves it as it is.
Reshape(snapshot) ==
    [i \in 1..Len(snapshot[1]) |->
        [kind |-> "row", cells |-> [q \in 1..Len(snapshot) |-> snapshot[q][i]]]]

\* The same expression for queues of different lengths, where numpy accepts
\* it: a one-dimensional object array, reshaped into a single row whose
\* cells are the whole queues.
ReshapeRagged(snapshot) == << [kind |-> "ragged", cells |-> snapshot] >>

EqualLengths(qs) == \A q \in 1..Len(qs) : Len(qs[q]) = Len(qs[1])

\* ---------------------------------------------------------- variables
VARIABLES
    lock,          \* Measurement.lock
    measure_exit,  \* Measurement.exit_
    exit_,         \* DataAcquisition.exit_
    data_queue,    \* Measurement.data_queue (the live list of deques)
    task,          \* Measurement.task: "none", "open", "closed"
    file,          \* lines of the csv file
    stored_data,   \* DataAcquisition.stored_data
    pcA,           \* position of Measurement.run
    starttime,     \* Measurement.run: starttime
    data,          \* Measurement.run: data
    ch_i,          \* Measurement.run: the loop variable _channel
    pcD,           \* position of DataAcquisition.run
    snap,          \* _data_acquisition: data, the deepcopy under construction
    copy_dirty,    \* the deque being iterated by deepcopy was mutated
    pcG,           \* position of the caller of DataAcquisition.exit
    now,           \* time.time_ns()
    nread,         \* blocks read from the device so far
    npushed,       \* samples per channel handed to a push so far
    nApp,          \* per queue: entries appended so far
    nEvict,        \* per queue: entries dropped by maxlen so far
    nDrained,      \* per queue: entries detached into snapshots so far
    windowRows,    \* timestamp entries appended while lock was set
    calls,         \* the row batches passed to to_csv(mode='a'), in order
    audit,         \* whether nApp, nEvict, nDrained and windowRows are kept
    polled,        \* Gui._update_graph: data, the copy of stored_data
    graph_data,    \* Gui.graph_data: the rows on display
    npolled,       \* batches copied out of stored_data by polls so far
    stamp          \* the last timestamp vector computed on its own

vars == <<lock, measure_exit, exit_, data_queue, task, file, stored_data,
          pcA, starttime, data, ch_i, pcD, snap, copy_dirty, pcG, now, nread,
          npushed, nApp, nEvict, nDrained, windowRows, calls, audit, polled,
          graph_data, npolled, stamp>>

acqVars == <<pcA, starttime, data, ch_i, now, nread, npushed>>
bufGhost == <<nApp, nEvict, windowRows, audit>>
expVars == <<pcD, snap, file, stored_data, calls, nDrained>>
guiVars == <<polled, graph_data, npolled, stamp>>

Header == [kind |-> "header", cells |-> columns]

\* The state in which Measurement.run is at position a, DataAcquisition.run
\* at position d and the task in state t, nothing having been read yet;
\* k says whether the counters of appended, evicted and drained entries,
\* which record the history of the run, are kept.
Constructed(a, d, t, k) ==
    /\ audit = k
    /\ lock = FALSE
    /\ measure_exit = FALSE
    /\ exit_ = FALSE
    /\ data_queue = q_init
    /\ task = t
    /\ file = <<Header>>
    /\ stored_data = <<>>
    /\ pcA = a
    /\ starttime = 0
    /\ data = EmptyData
    /\ ch_i = 0
    /\ pcD = d
    /\ snap = <<>>
    /\ copy_dirty = FALSE
    /\ pcG = "idle"
    /\ now = 0
    /\ nread = 0
    /\ npushed = 0
    /\ nApp = [q \in 1..NQ |-> 0]
    /\ nEvict = [q \in 1..NQ |-> 0]
    /\ nDrained = [q \in 1..NQ |-> 0]
    /\ windowRows = 0
    /\ calls = <<>>
    /\ polled = <<>>
    /\ graph_data = <<>>
    /\ npolled = 0
    /\ stamp = [st |-> 0, duration |-> 0, n |-> 0, out |-> <<>>]

\* DataAcquisition.__init__ has run (the csv holds the header) and start()
\* has been called; Measurement does not exist yet.
Init == Constructed("unborn", "start", "none", FALSE)

\* ------------------------------------------------ Measurement.run
\* Lines 243-253: create and start the task, data = [list()] * (n+1).
AcqInit ==
    /\ pcA = "init"
    /\ task' = "open"
    /\ data' = EmptyData
    /\ pcA' = "loop"
    /\ UNCHANGED guiVars
    /\ UNCHANGED <<lock, measure_exit, exit_, data_queue, starttime, ch_i,
                   copy_dirty, pcG, now, nread, npushed>>
    /\ UNCHANGED bufGhost
    /\ UNCHANGED expVars

\* Lines 255-258: leave the loop if exit_ is set, else take starttime.
AcqCheckExit ==
    /\ pcA = "loop"
    /\ IF measure_exit
         THEN pcA' = "done" /\ UNCHANGED starttime
         ELSE pcA' = "read" /\ starttime' = now
    /\ UNCHANGED guiVars
    /\ UNCHANGED <<lock, measure_exit, exit_, data_queue, task, data, ch_i,
                   copy_dirty, pcG, now, nread, npushed>>
    /\ UNCHANGED bufGhost
    /\ UNCHANGED expVars

\* How long a blocking read may take.  The source delivers contiguous
\* blocks, so each read returns one block duration after it was issued.
\* The durations decide the values of the timestamps only; no control flow
\* and no voltage cell depends on them.
ReadDurations == {read_timeout}

\* Lines 259-263: the blocking read returns block nread+1 and the block is
\* added to what data holds.  A read on a closed task raises.
AcqRead ==
    /\ pcA = "read"
    /\ IF task = "closed"
         THEN /\ pcA' = "crashed"
              /\ UNCHANGED <<data, now, nread>>
         ELSE /\ nread < MaxReads
              /\ \E d \in ReadDurations : now' = now + d
              /\ nread' = nread + 1
              /\ data' = ZipConcat(data, TaskRead(nread + 1))
              /\ pcA' = "check_lock"
    /\ UNCHANGED guiVars
    /\ UNCHANGED <<lock, measure_exit, exit_, data_queue, task, starttime,
                   ch_i, copy_dirty, pcG, npushed>>
    /\ UNCHANGED bufGhost
    /\ UNCHANGED expVars

\* Mutant of AcqCheckLock: the loop waits for the lock to be cleared
\* instead of skipping the push.
AcqCheckLockWait ==
    /\ pcA = "check_lock"
    /\ ~lock
    /\ pcA' = "ext_ts"
    /\ UNCHANGED guiVars
    /\ UNCHANGED <<lock, measure_exit, exit_, data_queue, task, starttime,
                   data, ch_i, copy_dirty, pcG, now, nread, npushed>>
    /\ UNCHANGED bufGhost
    /\ UNCHANGED expVars

\* Line 264: if not self.lock.
AcqCheckLock ==
    /\ pcA = "check_lock"
    /\ pcA' = IF ~lock THEN "ext_ts" ELSE "loop"
    /\ UNCHANGED guiVars
    /\ UNCHANGED <<lock, measure_exit, exit_, data_queue, task, starttime,
                   data, ch_i, copy_dirty, pcG, now, nread, npushed>>
    /\ UNCHANGED bufGhost
    /\ UNCHANGED expVars

\* deque.extend on queue q of the live list, with the bookkeeping: an
\* extend of the deque deepcopy is iterating invalidates that iterator.
\* (The interpreter looks the deque up before it evaluates the argument, so
\* an extend can also land on a deque that q_init has detached meanwhile;
\* its entries are then lost exactly as if the extend had run just before
\* that q_init, an interleaving the model has.)
ExtendLive(q, xs) ==
    /\ data_queue' = [data_queue EXCEPT ![q] = ExtendQ(@, xs)]
    /\ nApp' = IF audit THEN [nApp EXCEPT ![q] = @ + Len(xs)] ELSE nApp
    /\ nEvict' = IF audit THEN [nEvict EXCEPT ![q] = @ + Evicted(data_queue[q], xs)]
                 ELSE nEvict
    /\ audit' = audit
    /\ copy_dirty' = IF pcD = "copying" /\ Len(snap) + 1 = q /\ Len(xs) > 0
                       THEN TRUE ELSE copy_dirty

\* Lines 265-268: self.data_queue[0].extend(linspace(...)[:-1]).
AcqExtendTs ==
    /\ pcA = "ext_ts"
    /\ ExtendLive(1, Timestamps(starttime, Len(data[1])))
    /\ windowRows' = IF audit /\ lock THEN windowRows + Len(data[1])
                     ELSE windowRows
    /\ ch_i' = 0
    /\ pcA' = "ext_ch"
    /\ UNCHANGED guiVars
    /\ UNCHANGED <<lock, measure_exit, exit_, task, starttime, data, pcG, now,
                   nread, npushed>>
    /\ UNCHANGED expVars

\* Lines 269-271: self.data_queue[_channel+1].extend(data[_channel]) for the
\* next _channel; after the last one data is reset.
AcqExtendCh ==
    /\ pcA = "ext_ch"
    /\ ExtendLive(ch_i + 2, data[ch_i + 1])
    /\ IF ch_i + 1 < Len(channel)
         THEN /\ ch_i' = ch_i + 1
              /\ UNCHANGED <<pcA, data, npushed>>
         ELSE /\ pcA' = "loop"
              /\ data' = EmptyData
              /\ npushed' = nread * ReadSamples
              /\ ch_i' = 0
    /\ UNCHANGED guiVars
    /\ UNCHANGED <<lock, measure_exit, exit_, task, starttime, pcG, now, nread,
                   windowRows>>
    /\ UNCHANGED expVars

AcqNext ==
    \/ AcqInit
    \/ AcqCheckExit
    \/ AcqRead
    \/ AcqCheckLock
    \/ AcqExtendTs
    \/ AcqExtendCh

\* ------------------------------------------- DataAcquisition.run
\* Lines 351, 314-319, 216-234: _start_recording constructs Measurement
\* (q_init, lock = False, exit_ = False) and starts its thread.
DStartRecording ==
    /\ pcD = "start"
    /\ data_queue' = q_init
    /\ lock' = FALSE
    /\ measure_exit' = FALSE
    /\ pcA' = "init"
    /\ pcD' = "loop"
    /\ UNCHANGED guiVars
    /\ UNCHANGED <<exit_, task, file, stored_data, starttime, data, ch_i, snap,
                   copy_dirty, pcG, now, nread, npushed, nDrained, calls>>
    /\ UNCHANGED bufGhost

\* Mutant of DCheckExit: the loop test does not look at exit_.
DCheckExitIgnore ==
    /\ pcD = "loop"
    /\ pcD' = "sleep"
    /\ UNCHANGED guiVars
    /\ UNCHANGED <<lock, measure_exit, exit_, data_queue, task, file,
                   stored_data, snap, copy_dirty, pcG, nDrained, calls>>
    /\ UNCHANGED acqVars
    /\ UNCHANGED bufGhost

\* Lines 352-355: leave the loop if exit_ is set, else go to sleep.
DCheckExit ==
    /\ pcD = "loop"
    /\ pcD' = IF exit_ THEN "done" ELSE "sleep"
    /\ UNCHANGED guiVars
    /\ UNCHANGED <<lock, measure_exit, exit_, data_queue, task, file,
                   stored_data, snap, copy_dirty, pcG, nDrained, calls>>
    /\ UNCHANGED acqVars
    /\ UNCHANGED bufGhost

\* Lines 356, 323: the sleep ends and self.measure.lock = True.
DSetLock ==
    /\ pcD = "sleep"
    /\ lock' = TRUE
    /\ snap' = <<>>
    /\ pcD' = "copy"
    /\ UNCHANGED guiVars
    /\ UNCHANGED <<measure_exit, exit_, data_queue, task, file, stored_data,
                   copy_dirty, pcG, nDrained, calls>>
    /\ UNCHANGED acqVars
    /\ UNCHANGED bufGhost

\* Line 324, deepcopy reaching the next deque of the list: its __reduce__
\* creates the iterator over the deque.
DCopyBegin ==
    /\ pcD = "copy"
    /\ copy_dirty' = FALSE
    /\ pcD' = "copying"
    /\ UNCHANGED guiVars
    /\ UNCHANGED <<lock, measure_exit, exit_, data_queue, task, file,
                   stored_data, snap, pcG, nDrained, calls>>
    /\ UNCHANGED acqVars
    /\ UNCHANGED bufGhost

\* Line 324, the iteration over that deque ends: with its contents copied,
\* or with RuntimeError (deque mutated during iteration), which ends the
\* thread with the lock still set.
DCopyEnd ==
    /\ pcD = "copying"
    /\ IF copy_dirty
         THEN pcD' = "crashed" /\ UNCHANGED snap
         ELSE /\ snap' = Append(snap, data_queue[Len(snap) + 1])
              /\ pcD' = IF Len(snap) + 1 = Len(data_queue) THEN "q_init" ELSE "copy"
    /\ copy_dirty' = FALSE
    /\ UNCHANGED guiVars
    /\ UNCHANGED <<lock, measure_exit, exit_, data_queue, task, file,
                   stored_data, pcG, nDrained, calls>>
    /\ UNCHANGED acqVars
    /\ UNCHANGED bufGhost

\* Line 325: self.measure.q_init() replaces the live list.
DQInit ==
    /\ pcD = "q_init"
    /\ data_queue' = q_init
    /\ nDrained' = IF audit THEN [q \in 1..NQ |-> nDrained[q] + Len(snap[q])]
                   ELSE nDrained
    /\ pcD' = "unlock"
    /\ UNCHANGED guiVars
    /\ UNCHANGED <<lock, measure_exit, exit_, task, file, stored_data, snap,
                   copy_dirty, pcG, calls>>
    /\ UNCHANGED acqVars
    /\ UNCHANGED bufGhost

\* Line 326: self.measure.lock = False.
DUnlock ==
    /\ pcD = "unlock"
    /\ lock' = FALSE
    /\ pcD' = "export"
    /\ UNCHANGED guiVars
    /\ UNCHANGED <<measure_exit, exit_, data_queue, task, file, stored_data,
                   snap, copy_dirty, pcG, nDrained, calls>>
    /\ UNCHANGED acqVars
    /\ UNCHANGED bufGhost

\* Mutant of export_data: to_csv(mode='a') without header=False writes the
\* column names again in front of the rows.
export_data_with_header(f, result) == f \o <<Header>> \o result

\* Lines 334-341: to_csv(mode='a', header=False) appends the rows.
export_data(f, result) == f \o result

\* Lines 327-332: a non-empty snapshot is reshaped into rows, appended to
\* the csv and to stored_data; the local copy dies with the call.  Queues of different lengths make np.array
\* raise ValueError (numpy >= 1.24) or build an object array (before).
DExport ==
    /\ pcD = "export"
    /\ IF Len(snap[1]) > 0
         THEN \/ /\ EqualLengths(snap)
                 /\ file' = export_data(file, Reshape(snap))
                 /\ calls' = Append(calls, Reshape(snap))
                 /\ stored_data' = Append(stored_data, Reshape(snap))
                 /\ pcD' = "loop"
              \/ /\ ~EqualLengths(snap)
                 /\ file' = export_data(file, ReshapeRagged(snap))
                 /\ calls' = Append(calls, ReshapeRagged(snap))
                 /\ stored_data' = Append(stored_data, ReshapeRagged(snap))
                 /\ pcD' = "loop"
              \/ /\ ~EqualLengths(snap)
                 /\ pcD' = "crashed"
                 /\ UNCHANGED <<file, calls, stored_data>>
         ELSE /\ pcD' = "loop"
              /\ UNCHANGED <<file, calls, stored_data>>
    /\ snap' = <<>>
    /\ UNCHANGED guiVars
    /\ UNCHANGED <<lock, measure_exit, exit_, data_queue, task, copy_dirty,
                   pcG, nDrained>>
    /\ UNCHANGED acqVars
    /\ UNCHANGED bufGhost

ExpNext ==
    \/ DStartRecording
    \/ DCheckExit
    \/ DSetLock
    \/ DCopyBegin
    \/ DCopyEnd
    \/ DQInit
    \/ DUnlock
    \/ DExport

\* ------------------------------- Gui._stop -> DataAcquisition.exit
\* Line 345: self.exit_ = True.
GExit ==
    /\ pcG = "idle"
    /\ exit_' = TRUE
    /\ pcG' = "measure_exit"
    /\ UNCHANGED guiVars
    /\ UNCHANGED <<lock, measure_exit, data_queue, task, copy_dirty>>
    /\ UNCHANGED acqVars
    /\ UNCHANGED bufGhost
    /\ UNCHANGED expVars

\* Lines 346, 275: self.measure.exit() sets Measurement.exit_; AttributeError
\* if _start_recording has not created self.measure yet.
GMeasureExit ==
    /\ pcG = "measure_exit"
    /\ IF pcA = "unborn"
         THEN pcG' = "crashed" /\ UNCHANGED measure_exit
         ELSE pcG' = "task_stop" /\ measure_exit' = TRUE
    /\ UNCHANGED guiVars
    /\ UNCHANGED <<lock, exit_, data_queue, task, copy_dirty>>
    /\ UNCHANGED acqVars
    /\ UNCHANGED bufGhost
    /\ UNCHANGED expVars

\* Lines 276-277: self.task.stop(); self.task.close(); AttributeError if
\* Measurement.run has not created self.task yet.
GTaskStop ==
    /\ pcG = "task_stop"
    /\ IF task = "none"
         THEN pcG' = "crashed" /\ UNCHANGED task
         ELSE pcG' = "done" /\ task' = "closed"
    /\ UNCHANGED guiVars
    /\ UNCHANGED <<lock, measure_exit, exit_, data_queue, copy_dirty>>
    /\ UNCHANGED acqVars
    /\ UNCHANGED bufGhost
    /\ UNCHANGED expVars

GuiNext ==
    \/ GExit
    \/ GMeasureExit
    \/ GTaskStop

\* ------------------------------------------------- specifications
Next ==
    \/ AcqNext
    \/ ExpNext
    \/ GuiNext

Spec == Init /\ [][Next]_vars

\* The same program with the counters of appended, evicted and drained
\* entries kept.
AuditSpec == Constructed("unborn", "start", "none", TRUE) /\ [][Next]_vars

\* Both threads are scheduled by the operating system, so the acquisition
\* thread is never starved; nothing is assumed of the export thread, which
\* may stay inside a drain for as long as it likes.
LiveSpec == Init /\ [][Next]_vars /\ WF_vars(AcqNext)

\* Every thread keeps being scheduled: a read that can return returns, a
\* sleep ends, and the owner's call of exit() runs to its end.
FairSpec ==
    Init /\ [][Next]_vars
         /\ WF_vars(AcqNext) /\ WF_vars(ExpNext) /\ WF_vars(GuiNext)

TypeOK ==
    /\ lock \in BOOLEAN
    /\ pcA \in {"unborn", "init", "loop", "read", "check_lock", "ext_ts",
                "ext_ch", "done", "crashed", "read_failed"}
    /\ pcD \in {"start", "loop", "sleep", "copy", "copying", "q_init",
                "unlock", "export", "done", "crashed", "write_failed"}
    /\ pcG \in {"idle", "poll_replace", "measure_exit", "task_stop", "done",
                "crashed"}
    /\ Len(data_queue) = NQ
    /\ \A q \in 1..NQ : Len(data_queue[q]) <= dataLength
    /\ nread \in 0..(MaxReads + 1)

\* ------------------------------------- the push as one operation
\* Lines 265-270 run without interruption on the list of queues dq: the
\* timestamps go to queue 0, the samples of channel c to queue c+1.
Push(dq, st, d) ==
    [q \in 1..Len(dq) |->
        IF q = 1 THEN ExtendQ(dq[1], Timestamps(st, Len(d[1])))
        ELSE ExtendQ(dq[q], d[q - 1])]

\* What Push appends to queue q.
PushInput(q, st, d) == IF q = 1 THEN Timestamps(st, Len(d[1])) ELSE d[q - 1]

\* An input of the push: n samples per channel, numbered from s0+1, read
\* at starttime st; at most MaxReads inputs are fed.
SeqFeed ==
    /\ pcA = "loop"
    /\ nread < MaxReads
    /\ nread' = nread + 1
    /\ \E n \in 1..MaxPushLen, s0 \in 0..MaxPushLen, st \in 0..MaxPushLen :
          /\ data' = [c \in 1..Len(channel) |->
                         [j \in 1..n |-> Voltage(channel[c], s0 + j)]]
          /\ starttime' = st
    /\ pcA' = "ext_ts"
    /\ UNCHANGED guiVars
    /\ UNCHANGED <<lock, measure_exit, exit_, data_queue, task, ch_i,
                   copy_dirty, pcG, now, npushed>>
    /\ UNCHANGED bufGhost
    /\ UNCHANGED expVars

\* The push of lines 264-271 with no other thread running.
SeqPush ==
    /\ pcA = "ext_ts"
    /\ data_queue' = Push(data_queue, starttime, data)
    /\ nApp' = [q \in 1..NQ |-> nApp[q] + Len(PushInput(q, starttime, data))]
    /\ nEvict' = [q \in 1..NQ |->
                    nEvict[q] + Evicted(data_queue[q], PushInput(q, starttime, data))]
    /\ data' = EmptyData
    /\ pcA' = "loop"
    /\ UNCHANGED guiVars
    /\ UNCHANGED <<lock, measure_exit, exit_, task, starttime, ch_i,
                   copy_dirty, pcG, now, nread, npushed, windowRows, audit>>
    /\ UNCHANGED expVars

\* Measurement.q_init between two pushes.
SeqDrain ==
    /\ pcA = "loop"
    /\ data_queue' = q_init
    /\ nDrained' = [q \in 1..NQ |-> nDrained[q] + Len(data_queue[q])]
    /\ UNCHANGED guiVars
    /\ UNCHANGED <<lock, measure_exit, exit_, task, file, stored_data, pcD,
                   snap, copy_dirty, pcG, calls>>
    /\ UNCHANGED acqVars
    /\ UNCHANGED bufGhost

PushNext ==
    \/ SeqFeed
    \/ SeqPush
    \/ SeqDrain

\* The RingBuffer driven by one thread: pushes of arbitrary non-empty
\* equal-length inputs and resets, from the freshly constructed buffer.
PushSpec == Constructed("loop", "sleep", "open", TRUE) /\ [][PushNext]_vars

\* -------------------------------------- the clock and the device
\* The device fills its buffer from task.start() (line 252, time 0) on:
\* block k is complete at k * read_timeout.  The thread may be kept off
\* the processor between two iterations (by the export thread's drain, by
\* the front-end), here for one block duration and for as long as it is
\* not more than one block behind the device.
ClockDelay ==
    /\ pcA = "loop"
    /\ task = "open"
    /\ now < (nread + 1) * read_timeout
    /\ now' = now + read_timeout
    /\ UNCHANGED guiVars
    /\ UNCHANGED <<lock, measure_exit, exit_, data_queue, task, copy_dirty,
                   pcG, pcA, starttime, data, ch_i, nread, npushed>>
    /\ UNCHANGED bufGhost
    /\ UNCHANGED expVars

\* Lines 259-263: the blocking read returns block nread+1 when the device
\* has completed it: at once if it is in the buffer already.
ClockRead ==
    /\ pcA = "read"
    /\ task = "open"
    /\ nread < MaxReads + 1
    /\ now' = Max(now, (nread + 1) * read_timeout)
    /\ nread' = nread + 1
    /\ data' = ZipConcat(data, TaskRead(nread + 1))
    /\ pcA' = "check_lock"
    /\ UNCHANGED guiVars
    /\ UNCHANGED <<lock, measure_exit, exit_, data_queue, task, starttime,
                   ch_i, copy_dirty, pcG, npushed>>
    /\ UNCHANGED bufGhost
    /\ UNCHANGED expVars

ClockNext ==
    \/ AcqInit
    \/ AcqCheckExit
    \/ ClockDelay
    \/ ClockRead
    \/ AcqCheckLock
    \/ AcqExtendTs
    \/ AcqExtendCh
    \/ ExpNext

\* The running session, never stopped, with reads that return as the
\* device delivers.
ClockSpec == Init /\ [][ClockNext]_vars

\* ------------------------------------- the timestamp vector alone
\* Start times and block durations, in nanoseconds, the vector is computed
\* for.
StampStarts == {1000 * k : k \in 0..StampMaxN}
StampDurations == {10000, 20000, 10000000, 20000000}

\* Lines 265-268: the argument of data_queue[0].extend for one start time,
\* block duration and number of samples.
StampApply ==
    /\ \E st \in StampStarts, d \in StampDurations, n \in 1..StampMaxN :
         stamp' = [st |-> st, duration |-> d, n |-> n,
                   out |-> TimestampVector(st, d, n)]
    /\ UNCHANGED <<polled, graph_data, npolled>>
    /\ UNCHANGED <<lock, measure_exit, exit_, data_queue, task, copy_dirty,
                   pcG>>
    /\ UNCHANGED acqVars
    /\ UNCHANGED bufGhost
    /\ UNCHANGED expVars

StampSpec == Init /\ [][StampApply]_vars

\* ------------------------------------------- failing device and disk
\* Lines 259-260: task.read raises DaqError (the samples did not arrive
\* within read_timeout, or the device failed).  Nothing catches it in
\* Measurement.run: the thread ends there, its local data with it.
AcqReadFail ==
    /\ pcA = "read"
    /\ task = "open"
    /\ pcA' = "read_failed"
    /\ data' = EmptyData
    /\ now' = now + read_timeout
    /\ UNCHANGED guiVars
    /\ UNCHANGED <<lock, measure_exit, exit_, data_queue, task, starttime,
                   ch_i, copy_dirty, pcG, nread, npushed>>
    /\ UNCHANGED bufGhost
    /\ UNCHANGED expVars

\* Lines 330, 334-341: to_csv(mode='a') raises OSError.  Nothing catches it
\* in DataAcquisition.run: the thread ends before line 332, and no row of
\* the batch is taken as written.
DExportFail ==
    /\ pcD = "export"
    /\ Len(snap[1]) > 0
    /\ pcD' = "write_failed"
    /\ snap' = <<>>
    /\ UNCHANGED guiVars
    /\ UNCHANGED <<lock, measure_exit, exit_, data_queue, task, file,
                   stored_data, copy_dirty, pcG, nDrained, calls>>
    /\ UNCHANGED acqVars
    /\ UNCHANGED bufGhost

FaultNext ==
    \/ AcqReadFail
    \/ DExportFail

\* ------------------------------------------------ Gui._update_graph
\* Line 199: data[:, 0] *= 1e-9 turns nanoseconds into seconds; the scaled
\* value is kept as the pair of the count and the exponent.
ScaleRow(r) == [r EXCEPT !.cells = [@ EXCEPT ![1] = <<@, -9>>]]

\* Line 198: np.vstack stacks the rows of the batches.
RECURSIVE VStack(_)
VStack(batches) ==
    IF batches = <<>> THEN <<>> ELSE Head(batches) \o VStack(Tail(batches))

\* Lines 195-196, a timer tick of the Qt thread: stored_data is not empty
\* and data = stored_data.copy().  The same thread runs Gui._stop, so a
\* tick starts only while no exit() is under way.
GPollCopy ==
    /\ pcG = "idle"
    /\ Len(stored_data) # 0
    /\ polled' = stored_data
    /\ npolled' = npolled + Len(stored_data)
    /\ pcG' = "poll_replace"
    /\ UNCHANGED <<graph_data, stamp>>
    /\ UNCHANGED <<lock, measure_exit, exit_, data_queue, task, copy_dirty>>
    /\ UNCHANGED acqVars
    /\ UNCHANGED bufGhost
    /\ UNCHANGED expVars

\* Lines 197-204: stored_data is replaced by a new list and the copied
\* batches are stacked onto graph_data.  A row of whole queues makes line
\* 199 raise TypeError: the slot ends and graph_data keeps its value.
GPollReplace ==
    /\ pcG = "poll_replace"
    /\ stored_data' = <<>>
    /\ graph_data' =
         IF \E i \in 1..Len(VStack(polled)) : VStack(polled)[i].kind = "ragged"
           THEN graph_data
           ELSE graph_data \o [i \in 1..Len(VStack(polled)) |->
                                 ScaleRow(VStack(polled)[i])]
    /\ polled' = <<>>
    /\ pcG' = "idle"
    /\ UNCHANGED <<npolled, stamp>>
    /\ UNCHANGED <<lock, measure_exit, exit_, data_queue, task, copy_dirty>>
    /\ UNCHANGED acqVars
    /\ UNCHANGED bufGhost
    /\ UNCHANGED <<pcD, snap, file, calls, nDrained>>

GuiPollNext ==
    \/ GPollCopy
    \/ GPollReplace

\* The session with the front-end polling stored_data.
DisplaySpec == Init /\ [][Next \/ GuiPollNext]_vars

\* The session with a device and a disk that may fail.
FaultSpec == Init /\ [][Next \/ FaultNext]_vars


\* ------------------------------------------------------------ claims
\* C1: every complete drain snapshot (the deepcopy of data_queue, once all
\* its queues are copied) has all its queues of one length.
C1_SnapshotEqualLengths ==
    pcD \in {"q_init", "unlock", "export"} => EqualLengths(snap)

\* C2: while the gate (lock) is set, no step appends to any queue of the
\* RingBuffer.
C2_NoExtendWhileLocked == [][lock => nApp' = nApp]_vars

\* C3: every entry appended to a queue and not evicted by maxlen is in the
\* live queue or was detached into a drain snapshot; none is destroyed by
\* the reset.
C3_NoEntryLostByDrain ==
    \A q \in 1..NQ : nApp[q] - nEvict[q] = nDrained[q] + Len(data_queue[q])

\* C4 as stated: whenever the acquisition thread pushes, what it pushes is
\* exactly the block read in that loop iteration (a block read while the
\* gate was set is gone).
C4_PushOnlyCurrentBlock ==
    pcA \in {"ext_ts", "ext_ch"} =>
        \A c \in 1..Len(channel) : data[c] = TaskRead(nread)[c]

\* C4 amended: a block read while the gate is set is kept in data, and a
\* push holds, per channel and in acquisition order, the samples of every
\* block read since the previous push.
C4_PushAllSinceLastPush ==
    pcA \in {"ext_ts", "ext_ch"} =>
        /\ Len(data) = Len(channel)
        /\ \A c \in 1..Len(channel) :
              data[c] = [i \in 1..(nread * ReadSamples - npushed) |->
                            Voltage(channel[c], npushed + i)]

\* C4 witness: a push that carries a block held back from an earlier
\* iteration.
C4_HeldBackBlockPushed == pcA = "ext_ch" /\ Len(data[1]) > ReadSamples

\* C5: outside a push, all queues of the live RingBuffer have one length.
C5_LiveEqualLengths == pcA # "ext_ch" => EqualLengths(data_queue)

NoEviction == \A q \in 1..NQ : nEvict[q] = 0

\* Rows delivered to export: the lines of the csv after the header.
DeliveredRows == Len(file) - 1

\* Rows pushed: the timestamp entries appended to the RingBuffer.
PushedRows == nApp[1]

\* A drain has completed and nothing was pushed since: the export thread is
\* between two ticks, no push is under way and the live buffer is empty.
FinalDrainDone ==
    /\ pcD \in {"loop", "sleep", "done"}
    /\ pcA # "ext_ch"
    /\ \A q \in 1..NQ : data_queue[q] = <<>>

\* C6: without eviction the rows delivered never exceed the rows pushed, and
\* after a final drain they are the rows pushed minus the rows pushed while
\* the gate was set.
C6_DeliveredIsPushedMinusWindow ==
    NoEviction =>
        /\ DeliveredRows <= PushedRows
        /\ FinalDrainDone => DeliveredRows = PushedRows - windowRows

\* C7: the acquisition loop never waits on the gate: after every check of
\* the gate, whatever its value and however long it stays set, the thread
\* issues its next blocking read, unless it was stopped and ends.
C7_NeverWaitsOnGate == (pcA = "check_lock") ~> (pcA \in {"read", "done"})

\* C7 witness: the next read is issued with the gate still set, after an
\* iteration that skipped its push.
C7_ReadIssuedUnderGate == pcA = "read" /\ lock /\ Len(data[1]) > 0

\* C8: a push of non-empty equal-length inputs leaves every queue with
\* min(previous length + pushed length, capacity) entries, namely the
\* newest ones of the old contents followed by the input (the oldest are
\* dropped), and all queues with one length.
C8_PushLengthFifo ==
    [][(pcA = "ext_ts" /\ pcA' = "loop") =>
        \A q \in 1..NQ :
            LET old == data_queue[q]
                in == PushInput(q, starttime, data)
                new == data_queue'[q]
                dropped == Len(old) + Len(in) - Len(new)
            IN  /\ Len(in) > 0
                /\ Len(new) = Min(Len(old) + Len(in), dataLength)
                /\ \A i \in 1..Len(new) : new[i] = (old \o in)[i + dropped]
                /\ Len(new) = Len(data_queue'[1])]_vars

\* C8 witness: a push into a buffer too full to take it has dropped entries
\* of every queue.
C8_PushEvicted ==
    /\ pcA = "loop"
    /\ \A q \in 1..NQ : nEvict[q] > 0 /\ Len(data_queue[q]) = dataLength

\* The cells of csv line r in column col, in file order.
RowCells(r, col) ==
    IF r.kind = "row" THEN <<r.cells[col]>>
    ELSE IF r.kind = "ragged" THEN r.cells[col]
    ELSE <<>>

RECURSIVE Column(_, _)
Column(f, col) ==
    IF Len(f) = 0 THEN <<>> ELSE RowCells(Head(f), col) \o Column(Tail(f), col)

StrictlyIncreasing(s) == \A i \in 1..(Len(s) - 1) : s[i] < s[i + 1]

\* C9: the rows of the csv are in acquisition order: in every channel
\* column the sample numbers increase from line to line, over all export
\* ticks, held-back blocks included.
C9_RowsInAcquisitionOrder ==
    \A c \in 1..Len(channel) :
        LET col == Column(file, c + 1)
        IN  StrictlyIncreasing([i \in 1..Len(col) |-> SampleOf(col[i])])

\* C9 witness: the csv holds rows of two different drains.
C9_TwoDrainsExported == Len(stored_data) >= 2 /\ Len(Column(file, 2)) >= 2

RECURSIVE Flatten(_)
Flatten(batches) ==
    IF Len(batches) = 0 THEN <<>> ELSE Head(batches) \o Flatten(Tail(batches))

\* C10: the csv is the header line once, followed by the rows of all
\* append calls in call order.
C10_FileIsHeaderThenCalls ==
    LET rows == Flatten(calls)
    IN  /\ Len(file) = 1 + Len(rows)
        /\ file[1].kind = "header"
        /\ \A i \in 2..Len(file) :
              /\ file[i].kind = rows[i - 1].kind
              /\ file[i].kind # "header"
              /\ file[i].cells = rows[i - 1].cells

\* C10 witness: two append calls have been made.
C10_TwoAppends == Len(calls) >= 2 /\ Len(file) >= 3

\* C11: once an append to the csv file has failed, the session is over: the
\* acquisition thread does not go on to issue another read.
C11_WriteFailureStopsAcquisition ==
    [][pcD = "write_failed" => ~(pcA = "loop" /\ pcA' = "read")]_vars

\* C12: once a hardware read has failed, the read is not retried and the
\* session is over: the export loop does not go on to another tick.
C12_ReadFailureAbortsSession ==
    [][pcA = "read_failed" =>
         (pcA' = "read_failed" /\ ~(pcD = "loop" /\ pcD' = "sleep"))]_vars

\* Measurement.run and DataAcquisition.run have both ended, by leaving
\* their loop or by an exception.
Terminated ==
    /\ pcA \in {"done", "crashed", "read_failed"}
    /\ pcD \in {"done", "crashed", "write_failed"}

\* C13: when exit() is under way on a running session (the task is open),
\* both threads eventually end.
C13_StopTerminatesBoth == (pcG = "measure_exit" /\ task = "open") ~> Terminated

\* exit() has run to its end on an open task and both loops have left on
\* their flag.
C13_BothLeftOnFlag == pcG = "done" /\ pcA = "done" /\ pcD = "done"

\* C14: between polls, every batch appended to stored_data so far has been
\* copied out by exactly one poll or is still in stored_data.
C14_EveryBatchPolledOnce ==
    pcG # "poll_replace" => npolled + Len(stored_data) = Len(calls)

\* C15: the task is never stopped and closed while the acquisition thread
\* is at task.read, and no read is issued on a closed task.
C15_NoStopDuringRead == pcA = "read" => task # "closed"

\* C16: every push extends the timestamp queue by as many entries as each
\* channel gets samples, spaced by read_timeout / read_samples from the
\* start of the read, the last one before the end of the block.
C16_PushStampsEvenlySpaced ==
    pcA = "ext_ts" =>
        LET n == Len(data[1])
            ts == Timestamps(starttime, n)
        IN  /\ Len(ts) = n
            /\ \A i \in 1..n :
                   ts[i] = starttime + (i - 1) * (read_timeout \div ReadSamples)
            /\ ts[n] < starttime + read_timeout

\* C19: once exit() has been called and both loops have left, nothing
\* acquired is left outside the csv: the live queues are empty and no
\* block is held back.
C19_NothingLeftAfterStop ==
    (pcA = "done" /\ pcD = "done") =>
        /\ \A q \in 1..NQ : data_queue[q] = <<>>
        /\ data = EmptyData

\* C20: exit() never reaches for self.measure or self.task before they
\* exist.
C20_StopNeverFindsNothing == pcG # "crashed"

\* C17 as stated: start 1000, block duration 10,000,000 ns and 5 samples
\* give the timestamps 1000, 3000, 5000, 7000, 9000.
C17_ExampleAsStated ==
    (stamp.st = 1000 /\ stamp.duration = 10000000 /\ stamp.n = 5) =>
        stamp.out = <<1000, 3000, 5000, 7000, 9000>>

\* C17, amended: start 1000, block duration 10,000,000 ns and 5 samples give
\* the timestamps 1000, 2001000, 4001000, 6001000, 8001000 (steps of
\* 2,000,000 ns, the block duration over the number of samples).
C17_ExampleStepsOfBlockOverN ==
    (stamp.st = 1000 /\ stamp.duration = 10000000 /\ stamp.n = 5) =>
        stamp.out = <<1000, 2001000, 4001000, 6001000, 8001000>>

\* The vector has been computed for the inputs of the example.
C17_ExampleComputed ==
    stamp.st = 1000 /\ stamp.duration = 10000000 /\ stamp.n = 5

NonDecreasing(s) == \A i \in 1..(Len(s) - 1) : s[i] <= s[i + 1]

\* C18: with contiguous full blocks, each stamped from the clock read just
\* before its read, the timestamps never go back: neither in the timestamp
\* queue nor in the timestamp column of the csv.
C18_TimestampsNeverGoBack ==
    /\ NonDecreasing(data_queue[1])
    /\ NonDecreasing(Column(file, 1))

====
